---- MODULE Spec2Model ----
(***************************************************************************)
(* Model of bin/check_thresholds.py of fastqc-pipeline: the threshold      *)
(* loader (load_thresholds), the archive metric extractor                  *)
(* (parse_fastqc_zip), the threshold evaluator (check_sample and its       *)
(* wrapper validate_metrics) and the batch loop of main.                   *)
(*                                                                         *)
(* Representation.  A Python value that may be None is a sequence of       *)
(* length at most one: <<>> is None and <<v>> is the value v.  Numbers are *)
(* integers; a float such as 2.0 is modelled by the integer 2, so every    *)
(* comparison of the code is a comparison of integers.  A text line is the *)
(* sequence of its tab-separated fields, a field is a string token.  A     *)
(* file name stem is a sequence of atoms, the atom "_fastqc" being the     *)
(* one substring the code searches for.                                    *)
(***************************************************************************)
EXTENDS Integers, Sequences, FiniteSets, TLC

VARIABLES pc, config, thresholds, raised, fastqc_dir, idx, results,
          zip, metrics, callMetrics, callThresholds, ret

vars == <<pc, config, thresholds, raised, fastqc_dir, idx, results,
          zip, metrics, callMetrics, callThresholds, ret>>

(***************************************************************************)
(* Bounds of the model.                                                    *)
(***************************************************************************)
MaxVal == 2
MaxLines == 4
MaxStemLen == 3
MaxArchives == 2

None == <<>>
Some(v) == <<v>>
Opt(S) == {None} \cup {Some(v) : v \in S}

(***************************************************************************)
(* check_sample: the four order-fixed checks.                              *)
(***************************************************************************)
ReadsFailNonStrict(total, min_reads) == total <= min_reads
\* line 110: int(total) < int(min_reads); both are integers here, on which
\* int() returns its argument.
ReadsFail(total, min_reads) == total < min_reads

\* line 117: float(gc) < float(min_gc)
GcLowFail(gc, min_gc) == gc < min_gc

GcHighFailNonStrict(gc, max_gc) == gc >= max_gc
\* line 119: float(gc) > float(max_gc)
GcHighFail(gc, max_gc) == gc > max_gc

AdapterFailNonStrict(adapter, max_adapter_content) == adapter >= max_adapter_content
\* line 125: float(adapter) > float(max_adapter_content)
AdapterFail(adapter, max_adapter_content) == adapter > max_adapter_content

\* A reason string: the f-string's template (check), observed value and limit.
Reason(check, value, limit) == [check |-> check, value |-> value, limit |-> limit]

ReadsReasons(m, t) ==
    IF m.total_sequences # None /\ t.min_reads # None
       /\ ReadsFail(m.total_sequences[1], t.min_reads[1])
    THEN <<Reason("total_sequences < min_reads", m.total_sequences[1], t.min_reads[1])>>
    ELSE <<>>

GcReasons(m, t) ==
    IF m.gc_content = None THEN <<>>
    ELSE (IF t.min_gc # None /\ GcLowFail(m.gc_content[1], t.min_gc[1])
          THEN <<Reason("GC% < min_gc", m.gc_content[1], t.min_gc[1])>>
          ELSE <<>>)
         \o
         (IF t.max_gc # None /\ GcHighFail(m.gc_content[1], t.max_gc[1])
          THEN <<Reason("GC% > max_gc", m.gc_content[1], t.max_gc[1])>>
          ELSE <<>>)

AdapterReasons(m, t) ==
    IF m.adapter_content_max # None /\ t.max_adapter_content # None
       /\ AdapterFail(m.adapter_content_max[1], t.max_adapter_content[1])
    THEN <<Reason("adapter_content_max > max_adapter_content",
                  m.adapter_content_max[1], t.max_adapter_content[1])>>
    ELSE <<>>

StatusInverted(reasons) == IF reasons = <<>> THEN "FAIL" ELSE "PASS"
\* line 130: status = "PASS" if not reasons else "FAIL"
Status(reasons) == IF reasons = <<>> THEN "PASS" ELSE "FAIL"

check_sample(m, t) ==
    LET reasons == ReadsReasons(m, t) \o GcReasons(m, t) \o AdapterReasons(m, t)
    IN  [sample |-> m.sample,
         total_sequences |-> m.total_sequences,
         gc_content |-> m.gc_content,
         pct_q30 |-> m.pct_q30,
         adapter_content_max |-> m.adapter_content_max,
         status |-> Status(reasons),
         reasons |-> reasons]

\* validate_metrics: check_sample on the metrics with "sample" overridden;
\* returns the pair (status, reasons).
validate_metrics(m, t, sample_name) ==
    LET enriched == check_sample([m EXCEPT !.sample = sample_name], t)
    IN  <<enriched.status, enriched.reasons>>

(***************************************************************************)
(* Text: tokens, and what str.startswith, str.endswith, int() and float()  *)
(* make of them.                                                           *)
(***************************************************************************)
\* The tokens int() accepts, with their values; any other token raises
\* ValueError ("2.0" and "abc" alike).
IntValue == ("0" :> 0) @@ ("1" :> 1) @@ ("2" :> 2) @@ ("3" :> 3)
\* The tokens float() accepts: every int() token and the decimal ones.
FloatValue == IntValue @@ ("1.0" :> 1) @@ ("2.0" :> 2) @@ ("3.0" :> 3)
                       @@ ("-1.0" :> -1)

\* int(tok): Some(value), or None for a ValueError.
py_int(tok) == IF tok \in DOMAIN IntValue THEN Some(IntValue[tok]) ELSE None
\* float(tok): Some(value), or None for a ValueError.
py_float(tok) == IF tok \in DOMAIN FloatValue THEN Some(FloatValue[tok]) ELSE None

\* tok.startswith(prefix) for the prefixes the extractor looks for.
StartsWith(tok, prefix) ==
    CASE prefix = "Total Sequences"   -> tok \in {"Total Sequences"}
      [] prefix = "%GC"               -> tok \in {"%GC"}
      [] prefix = ">>Adapter Content" -> tok \in {">>Adapter Content"}
      [] prefix = ">>END_MODULE"      -> tok \in {">>END_MODULE"}
      [] prefix = "#"                 -> tok \in {"#Position", "#"}
      [] OTHER                        -> FALSE

\* name.endswith("fastqc_data.txt") on archive member names.
EndsWithReportName(name) ==
    name \in {"fastqc_data.txt", "a_fastqc/fastqc_data.txt", "b_fastqc/fastqc_data.txt"}

RECURSIVE DropLeadingEmpty(_)
DropLeadingEmpty(fields) ==
    IF fields # <<>> /\ fields[1] = "" THEN DropLeadingEmpty(Tail(fields)) ELSE fields

RECURSIVE DropTrailingEmpty(_)
DropTrailingEmpty(fields) ==
    IF fields # <<>> /\ fields[Len(fields)] = ""
    THEN DropTrailingEmpty(SubSeq(fields, 1, Len(fields) - 1))
    ELSE fields

\* raw_line.decode(...).strip() followed by split("\t"): leading and trailing
\* tabs go, so leading and trailing empty fields go; the empty line splits into
\* one empty field.
StripSplit(raw) ==
    LET kept == DropTrailingEmpty(DropLeadingEmpty(raw))
    IN  IF kept = <<>> THEN <<"">> ELSE kept

(***************************************************************************)
(* parse_fastqc_zip.                                                       *)
(***************************************************************************)
\* line 54: zip_path.stem.replace("_fastqc", ""): every occurrence goes.
SampleName(stem) == SelectSeq(stem, LAMBDA a : a # "_fastqc")

EmptyMetrics(stem) ==
    [sample |-> SampleName(stem),
     total_sequences |-> None,
     gc_content |-> None,
     pct_q30 |-> None,
     adapter_content_max |-> None]

\* line 62: the member names ending in fastqc_data.txt, in archive order.
DataFiles(z) ==
    LET names == [i \in DOMAIN z.members |-> z.members[i].name]
    IN  SelectSeq(names, EndsWithReportName)

\* zf.open(name): the lines of the member of that name (the last one, should
\* the name occur twice).
OpenMember(z, name) ==
    LET I == {i \in DOMAIN z.members : z.members[i].name = name}
        k == CHOOSE i \in I : \A j \in I : j <= i
    IN  z.members[k].lines

\* lines 67-77: the main-stats pass.  acc = [total, gc, raised]; a ValueError
\* of int() or float() is not caught and ends the pass.
RECURSIVE MainStats(_, _, _)
MainStats(lines, i, acc) ==
    IF i > Len(lines) \/ acc.raised # "none" THEN acc
    ELSE LET line == StripSplit(lines[i]) IN
         IF StartsWith(line[1], "Total Sequences")
         THEN IF Len(line) > 1
              THEN IF py_int(line[2]) = None
                   THEN [acc EXCEPT !.raised = "ValueError"]
                   ELSE MainStats(lines, i + 1, [acc EXCEPT !.total = py_int(line[2])])
              ELSE MainStats(lines, i + 1, acc)
         ELSE IF StartsWith(line[1], "%GC")
         THEN IF Len(line) > 1
              THEN IF py_float(line[2]) = None
                   THEN [acc EXCEPT !.raised = "ValueError"]
                   ELSE MainStats(lines, i + 1, [acc EXCEPT !.gc = py_float(line[2])])
              ELSE MainStats(lines, i + 1, acc)
         ELSE MainStats(lines, i + 1, acc)

\* max(a, b) of two numbers
PyMax(a, b) == IF b > a THEN b ELSE a

\* lines 94-98: fold the fields after the first into the running maximum; a
\* field float() rejects is skipped.
RECURSIVE FoldFields(_, _, _)
FoldFields(line, j, max_adapter) ==
    IF j > Len(line) THEN max_adapter
    ELSE IF py_float(line[j]) = None
         THEN FoldFields(line, j + 1, max_adapter)
         ELSE FoldFields(line, j + 1, PyMax(max_adapter, py_float(line[j])[1]))

SkipsEmptyOnly(line) == line = <<"">>
\* line 91: line.startswith("#") or not line
SkippedInSection(line) == StartsWith(line[1], "#") \/ line = <<"">>

\* lines 80-99: the adapter-content pass.
RECURSIVE AdapterScan(_, _, _, _)
AdapterScan(lines, i, in_adapter_section, max_adapter) ==
    IF i > Len(lines) THEN max_adapter
    ELSE LET line == StripSplit(lines[i]) IN
         IF StartsWith(line[1], ">>Adapter Content")
         THEN AdapterScan(lines, i + 1, TRUE, max_adapter)
         ELSE IF in_adapter_section
         THEN IF StartsWith(line[1], ">>END_MODULE") THEN max_adapter
              ELSE IF SkippedInSection(line)
              THEN AdapterScan(lines, i + 1, TRUE, max_adapter)
              ELSE AdapterScan(lines, i + 1, TRUE, FoldFields(line, 2, max_adapter))
         ELSE AdapterScan(lines, i + 1, FALSE, max_adapter)

\* The call's outcome: the exception it raised ("none" when it returned) and
\* the record it returned.
parse_fastqc_zip(z) ==
    LET empty == EmptyMetrics(z.stem)
        data_files == DataFiles(z)
    IN  IF data_files = <<>> THEN [raised |-> "none", metrics |-> empty]
        ELSE LET lines == OpenMember(z, data_files[1])
                 stats == MainStats(lines, 1,
                              [total |-> None, gc |-> None, raised |-> "none"])
             IN  IF stats.raised # "none"
                 THEN [raised |-> stats.raised, metrics |-> empty]
                 ELSE [raised |-> "none",
                       metrics |-> [empty EXCEPT
                           !.total_sequences = stats.total,
                           !.gc_content = stats.gc,
                           !.adapter_content_max =
                               Some(AdapterScan(lines, 1, FALSE, 0))]]

(***************************************************************************)
(* load_thresholds.  A configuration source is                             *)
(*   exists   - Path(config_path).exists()                                 *)
(*   parses   - whether ConfigParser.read accepts the text; when it does   *)
(*              not, read raises a configparser.ParsingError               *)
(*   sections - the section names of the file                              *)
(*   options  - the keys of [thresholds] with their value tokens           *)
(***************************************************************************)
DefaultMinReads == 10000
DefaultMinPctQ30 == 80
DefaultMaxAdapterContent == 5
DefaultMinGc == 30
DefaultMaxGc == 70

ThresholdKeys == {"min_reads", "min_pct_q30", "max_adapter_content", "min_gc", "max_gc"}

NoThresholds ==
    [min_reads |-> None, min_pct_q30 |-> None, max_adapter_content |-> None,
     min_gc |-> None, max_gc |-> None]

\* sec.getint(key, fallback=d): the fallback when the key is absent, else
\* int() of the value (None stands for its ValueError).
GetInt(options, key, fallback) ==
    IF key \in DOMAIN options THEN py_int(options[key]) ELSE Some(fallback)
\* sec.getfloat(key, fallback=d)
GetFloat(options, key, fallback) ==
    IF key \in DOMAIN options THEN py_float(options[key]) ELSE Some(fallback)

PathExistsIgnored(c) == TRUE
\* line 29: Path(config_path).exists()
PathExists(c) == c.exists

load_thresholds(c) ==
    IF ~PathExists(c)
    THEN [raised |-> "FileNotFoundError", thresholds |-> NoThresholds]
    \* line 33: cfg.read skips a file it cannot open and raises on one it
    \* cannot parse
    ELSE IF c.exists /\ ~c.parses
    THEN [raised |-> "ParsingError", thresholds |-> NoThresholds]
    ELSE IF ~c.exists \/ "thresholds" \notin c.sections
    THEN [raised |-> "ValueError", thresholds |-> NoThresholds]
    ELSE LET t == [min_reads |-> GetInt(c.options, "min_reads", DefaultMinReads),
                   min_pct_q30 |-> GetFloat(c.options, "min_pct_q30", DefaultMinPctQ30),
                   max_adapter_content |->
                       GetFloat(c.options, "max_adapter_content", DefaultMaxAdapterContent),
                   min_gc |-> GetFloat(c.options, "min_gc", DefaultMinGc),
                   max_gc |-> GetFloat(c.options, "max_gc", DefaultMaxGc)]
         IN  IF \E k \in ThresholdKeys : t[k] = None
             THEN [raised |-> "ValueError", thresholds |-> NoThresholds]
             ELSE [raised |-> "none", thresholds |-> t]

(***************************************************************************)
(* main: the batch loop.                                                   *)
(***************************************************************************)
\* The order of the characters that start the atoms of a file name:
\* "." (46) < "_" (95) < "a" (97).
AtomRank(a) == CASE a = ".zip" -> 0 [] a = "_fastqc" -> 1 [] a = "a" -> 2 [] OTHER -> 3

RECURSIVE SeqLess(_, _)
SeqLess(s, t) ==
    IF t = <<>> THEN FALSE
    ELSE IF s = <<>> THEN TRUE
    ELSE IF s[1] # t[1] THEN AtomRank(s[1]) < AtomRank(t[1])
    ELSE SeqLess(Tail(s), Tail(t))

\* Path order: the order of the file names stem + ".zip".
PathLess(z1, z2) == SeqLess(z1.stem \o <<".zip">>, z2.stem \o <<".zip">>)

RECURSIVE SortPaths(_)
SortPaths(S) ==
    IF S = {} THEN <<>>
    ELSE LET first == CHOOSE z \in S : \A y \in S \ {z} : PathLess(z, y)
         IN  <<first>> \o SortPaths(S \ {first})

\* fastqc_dir.glob("*_fastqc.zip")
Glob(files) == {z \in files : z.stem[Len(z.stem)] = "_fastqc"}

\* line 159: sorted(fastqc_dir.glob("*_fastqc.zip"))
SortedZips(dir) == SortPaths(Glob(dir.files))

HasKey(d, k) == \E i \in DOMAIN d : d[i].key = k
Lookup(d, k) == d[CHOOSE i \in DOMAIN d : d[i].key = k].value

DictSetDefault(d, k, v) ==
    IF HasKey(d, k) THEN d ELSE Append(d, [key |-> k, value |-> v])
\* line 165: results[key] = value on an insertion-ordered dict
DictSet(d, k, v) ==
    IF HasKey(d, k)
    THEN [i \in DOMAIN d |-> IF d[i].key = k THEN [key |-> k, value |-> v] ELSE d[i]]
    ELSE Append(d, [key |-> k, value |-> v])

NeverSkipped(m) == FALSE
\* line 161: if metrics["total_sequences"] is None: continue
Skipped(m) == m.total_sequences = None

(***************************************************************************)
(* Inputs.                                                                 *)
(***************************************************************************)
NoConfig == [exists |-> FALSE, parses |-> FALSE, sections |-> {}, options |-> <<>>]
NoDir == [is_dir |-> FALSE, files |-> {}]
NoZip == [stem |-> <<>>, members |-> <<>>]
NoMetrics == EmptyMetrics(<<>>)

\* Metrics records and threshold dicts handed to check_sample directly.
MetricsInputs ==
    [sample : {<<"a">>},
     total_sequences : Opt(0..MaxVal),
     gc_content : Opt(0..MaxVal),
     pct_q30 : {None, Some(0)},
     adapter_content_max : Opt(0..MaxVal)]

ThresholdInputs ==
    [min_reads : Opt(0..MaxVal),
     min_pct_q30 : {Some(1)},
     max_adapter_content : Opt(0..MaxVal),
     min_gc : Opt(0..MaxVal),
     max_gc : Opt(0..MaxVal)]

\* Raw report lines, as their tab-separated fields.
LineSet ==
    {<<"Total Sequences", "3">>,
     <<"Total Sequences", "abc">>,
     <<"Total Sequences", "">>,
     <<"%GC", "2.0">>,
     <<"%GC", "abc">>,
     <<">>Adapter Content", "3.0">>,
     <<">>END_MODULE">>,
     <<"#Position", "3.0">>,
     <<"1", "1.0", "abc", "2.0">>,
     <<"">>}

SeqsUpTo(S, n) == UNION {[1..k -> S] : k \in 0..n}

Reports == SeqsUpTo(LineSet, MaxLines)

\* A second report member, read only if the code opens the wrong member.
DecoyLines == <<<<"Total Sequences", "0">>, <<"%GC", "0">>>>

\* Archives handed to parse_fastqc_zip directly: no report member, one, or
\* two of them with the report first.
ArchiveShapes == {"no report", "one report", "two reports"}
ParseInput(shape, r) ==
    [stem |-> <<"a", "_fastqc">>,
     members |->
        CASE shape = "no report" -> <<[name |-> "summary.txt", lines |-> r]>>
          [] shape = "one report" ->
                <<[name |-> "summary.txt", lines |-> <<>>],
                  [name |-> "a_fastqc/fastqc_data.txt", lines |-> r]>>
          [] shape = "two reports" ->
                <<[name |-> "a_fastqc/fastqc_data.txt", lines |-> r],
                  [name |-> "b_fastqc/fastqc_data.txt", lines |-> DecoyLines]>>]

\* Configuration sources handed to load_thresholds directly.
ConfigTokens == {"1", "2.0", "abc"}
ConfigInputs ==
    {[exists |-> e, parses |-> p, sections |-> s, options |-> o] :
        e \in BOOLEAN, p \in BOOLEAN, s \in SUBSET {"thresholds", "other"},
        o \in UNION {[K -> ConfigTokens] : K \in SUBSET ThresholdKeys}}

\* The batch run's configuration sources: no file, a file without the
\* section, a file that sets four limits.
MainConfigs ==
    {[exists |-> FALSE, parses |-> FALSE, sections |-> {}, options |-> <<>>],
     [exists |-> TRUE, parses |-> TRUE, sections |-> {"other"}, options |-> <<>>],
     [exists |-> TRUE, parses |-> TRUE, sections |-> {"thresholds"},
      options |-> ("min_reads" :> "2") @@ ("min_gc" :> "1") @@ ("max_gc" :> "2")
                  @@ ("max_adapter_content" :> "1")]}

\* The batch run's archive contents: no report; two reports that differ in
\* their read count; a report whose read count is not a number.
ReportOf(reads) ==
    <<<<"Total Sequences", reads>>, <<"%GC", "2.0">>,
      <<">>Adapter Content", "pass">>, <<"#Position", "Adapter">>,
      <<"1", "1.0">>, <<">>END_MODULE">>>>
MainContents ==
    {<<[name |-> "summary.txt", lines |-> <<>>]>>,
     <<[name |-> "a_fastqc/fastqc_data.txt", lines |-> ReportOf("1")]>>,
     <<[name |-> "a_fastqc/fastqc_data.txt", lines |-> ReportOf("3")]>>,
     <<[name |-> "a_fastqc/fastqc_data.txt", lines |-> ReportOf("abc")]>>}

\* File name stems: every name that ends in _fastqc.zip, and a.zip.
Stems ==
    {s \in SeqsUpTo({"a", "_fastqc"}, MaxStemLen) :
        s # <<>> /\ s[Len(s)] = "_fastqc"} \cup {<<"a">>}

\* Directories: at most MaxArchives files of distinct names.
StemSets == {N \in SUBSET Stems : Cardinality(N) <= MaxArchives}
Directory(N, c) == [is_dir |-> TRUE, files |-> {[stem |-> s, members |-> c[s]] : s \in N}]

(***************************************************************************)
(* The batch run: main.                                                    *)
(***************************************************************************)
Init ==
    /\ pc = "start"
    /\ config \in MainConfigs
    /\ \/ fastqc_dir = NoDir
       \/ \E N \in StemSets : \E c \in [N -> MainContents] :
             fastqc_dir = Directory(N, c)
    /\ thresholds = NoThresholds
    /\ raised = "none"
    /\ idx = 1
    /\ results = <<>>
    /\ zip = NoZip
    /\ metrics = NoMetrics
    /\ callMetrics = NoMetrics
    /\ callThresholds = NoThresholds
    /\ ret = <<>>

\* lines 152-156: the directory check, then load_thresholds.
Start ==
    /\ pc = "start"
    /\ LET loaded == load_thresholds(config) IN
       IF ~fastqc_dir.is_dir
       THEN /\ pc' = "crashed"
            /\ raised' = "SystemExit"
            /\ UNCHANGED thresholds
       ELSE IF loaded.raised # "none"
       THEN /\ pc' = "crashed"
            /\ raised' = loaded.raised
            /\ UNCHANGED thresholds
       ELSE /\ pc' = "loop"
            /\ thresholds' = loaded.thresholds
            /\ UNCHANGED raised
    /\ UNCHANGED <<config, fastqc_dir, idx, results, zip, metrics,
                   callMetrics, callThresholds, ret>>

\* lines 159-165: one iteration of the loop over the sorted archives.
ProcessArchive ==
    /\ pc = "loop"
    /\ idx <= Len(SortedZips(fastqc_dir))
    /\ LET zip_file == SortedZips(fastqc_dir)[idx]
           parsed == parse_fastqc_zip(zip_file)
           checked == check_sample(parsed.metrics, thresholds)
       IN  /\ zip' = zip_file
           /\ IF parsed.raised # "none"
              THEN /\ pc' = "crashed"
                   /\ raised' = parsed.raised
                   /\ UNCHANGED <<idx, results, metrics>>
              ELSE /\ metrics' = parsed.metrics
                   /\ idx' = idx + 1
                   /\ results' = IF Skipped(parsed.metrics) THEN results
                                 ELSE DictSet(results, checked.sample, checked)
                   /\ UNCHANGED <<pc, raised>>
    /\ UNCHANGED <<config, fastqc_dir, thresholds, callMetrics, callThresholds, ret>>

\* lines 167-170: the loop is over; results is written out.
WriteOutput ==
    /\ pc = "loop"
    /\ idx > Len(SortedZips(fastqc_dir))
    /\ pc' = "done"
    /\ UNCHANGED <<config, fastqc_dir, thresholds, raised, idx, results, zip,
                   metrics, callMetrics, callThresholds, ret>>

Next == Start \/ ProcessArchive \/ WriteOutput

Spec == Init /\ [][Next]_vars

(***************************************************************************)
(* Direct calls of the three functions, on inputs from bounded sets.       *)
(***************************************************************************)
InitCheck ==
    /\ pc = "call"
    /\ callMetrics \in MetricsInputs
    /\ callThresholds \in ThresholdInputs
    /\ config = NoConfig
    /\ fastqc_dir = NoDir
    /\ thresholds = NoThresholds
    /\ raised = "none"
    /\ idx = 1
    /\ results = <<>>
    /\ zip = NoZip
    /\ metrics = NoMetrics
    /\ ret = <<>>

CallCheckSample ==
    /\ pc = "call"
    /\ pc' = "checked"
    /\ ret' = check_sample(callMetrics, callThresholds)
    /\ UNCHANGED <<config, thresholds, raised, fastqc_dir, idx, results, zip,
                   metrics, callMetrics, callThresholds>>

CallValidateMetrics ==
    /\ pc = "call"
    /\ pc' = "validated"
    /\ ret' = validate_metrics(callMetrics, callThresholds, <<"test_sample">>)
    /\ UNCHANGED <<config, thresholds, raised, fastqc_dir, idx, results, zip,
                   metrics, callMetrics, callThresholds>>

NextCheck == CallCheckSample \/ CallValidateMetrics

SpecCheck == InitCheck /\ [][NextCheck]_vars

InitParse ==
    /\ pc = "call"
    /\ \E shape \in ArchiveShapes, r \in Reports : zip = ParseInput(shape, r)
    /\ config = NoConfig
    /\ fastqc_dir = NoDir
    /\ thresholds = NoThresholds
    /\ raised = "none"
    /\ idx = 1
    /\ results = <<>>
    /\ metrics = NoMetrics
    /\ callMetrics = NoMetrics
    /\ callThresholds = NoThresholds
    /\ ret = <<>>

CallParse ==
    /\ pc = "call"
    /\ pc' = "parsed"
    /\ LET parsed == parse_fastqc_zip(zip) IN
       /\ raised' = parsed.raised
       /\ metrics' = parsed.metrics
    /\ UNCHANGED <<config, thresholds, fastqc_dir, idx, results, zip,
                   callMetrics, callThresholds, ret>>

NextParse == CallParse

SpecParse == InitParse /\ [][NextParse]_vars

InitLoad ==
    /\ pc = "call"
    /\ config \in ConfigInputs
    /\ fastqc_dir = NoDir
    /\ thresholds = NoThresholds
    /\ raised = "none"
    /\ idx = 1
    /\ results = <<>>
    /\ zip = NoZip
    /\ metrics = NoMetrics
    /\ callMetrics = NoMetrics
    /\ callThresholds = NoThresholds
    /\ ret = <<>>

CallLoad ==
    /\ pc = "call"
    /\ pc' = "loaded"
    /\ LET loaded == load_thresholds(config) IN
       /\ raised' = loaded.raised
       /\ thresholds' = loaded.thresholds
    /\ UNCHANGED <<config, fastqc_dir, idx, results, zip, metrics,
                   callMetrics, callThresholds, ret>>

NextLoad == CallLoad

SpecLoad == InitLoad /\ [][NextLoad]_vars

(***************************************************************************)
(* Properties.                                                             *)
(***************************************************************************)
HasReason(reasons, check) == \E i \in DOMAIN reasons : reasons[i].check = check
GcReasonCount(reasons) ==
    Cardinality({i \in DOMAIN reasons : reasons[i].check \in {"GC% < min_gc", "GC% > max_gc"}})

\* C1: the verdict of check_sample, and the pair of validate_metrics, has status
\* PASS exactly when its reasons are empty, and status FAIL otherwise.
C1_StatusIffNoReasons ==
    /\ pc = "checked" =>
          /\ ret.status \in {"PASS", "FAIL"}
          /\ ret.status = "PASS" <=> ret.reasons = <<>>
    /\ pc = "validated" =>
          /\ ret[1] \in {"PASS", "FAIL"}
          /\ ret[1] = "PASS" <=> ret[2] = <<>>

C1_Witness ==
    /\ pc = "validated"
    /\ ret[1] = "FAIL"
    /\ Len(ret[2]) >= 2

\* C2: the reads reason is among the reasons exactly when total_sequences and
\* min_reads are both present and total_sequences < min_reads; equal values
\* and an absent side give no reads reason.
C2_ReadsReasonIffBelow ==
    pc = "checked" =>
        LET R == callMetrics.total_sequences
            M == callThresholds.min_reads
        IN  HasReason(ret.reasons, "total_sequences < min_reads")
                <=> (R # None /\ M # None /\ R[1] < M[1])

C2_Witness ==
    /\ pc = "checked"
    /\ callMetrics.total_sequences # None
    /\ callMetrics.total_sequences = callThresholds.min_reads
    /\ ~HasReason(ret.reasons, "total_sequences < min_reads")
    /\ ret.status = "FAIL"

\* C3 as stated: with G, L and U present, no GC reason iff L <= G <= U, exactly
\* one GC reason iff G < L or G > U, and both reasons only when L > U.
C3_Original ==
    (pc = "checked" /\ callMetrics.gc_content # None
        /\ callThresholds.min_gc # None /\ callThresholds.max_gc # None) =>
        LET G == callMetrics.gc_content[1]
            L == callThresholds.min_gc[1]
            U == callThresholds.max_gc[1]
            n == GcReasonCount(ret.reasons)
        IN  /\ n = 0 <=> (L <= G /\ G <= U)
            /\ n = 1 <=> (G < L \/ G > U)
            /\ n = 2 => L > U

\* C3 as amended: with G, L and U present, no GC reason iff L <= G <= U, at
\* least one iff G < L or G > U, exactly one iff exactly one of G < L and
\* G > U holds, and both reasons iff U < G < L (so only when L > U).
C3_GcReasons ==
    (pc = "checked" /\ callMetrics.gc_content # None
        /\ callThresholds.min_gc # None /\ callThresholds.max_gc # None) =>
        LET G == callMetrics.gc_content[1]
            L == callThresholds.min_gc[1]
            U == callThresholds.max_gc[1]
            n == GcReasonCount(ret.reasons)
        IN  /\ n = 0 <=> (L <= G /\ G <= U)
            /\ n >= 1 <=> (G < L \/ G > U)
            /\ n = 1 <=> ((G < L) # (G > U))
            /\ n = 2 <=> (U < G /\ G < L)
            /\ HasReason(ret.reasons, "GC% < min_gc") <=> G < L
            /\ HasReason(ret.reasons, "GC% > max_gc") <=> G > U

C3_Witness ==
    /\ pc = "checked"
    /\ callMetrics.gc_content # None
    /\ callThresholds.min_gc # None
    /\ callThresholds.max_gc # None
    /\ callThresholds.min_gc[1] > callThresholds.max_gc[1]
    /\ GcReasonCount(ret.reasons) = 2

\* C4: the adapter-content reason is among the reasons exactly when
\* adapter_content_max and max_adapter_content are both present and the former
\* is strictly greater; equal values and an absent side give no such reason.
C4_AdapterReasonIffAbove ==
    pc = "checked" =>
        LET A == callMetrics.adapter_content_max
            T == callThresholds.max_adapter_content
        IN  HasReason(ret.reasons, "adapter_content_max > max_adapter_content")
                <=> (A # None /\ T # None /\ A[1] > T[1])

C4_Witness ==
    /\ pc = "checked"
    /\ callMetrics.adapter_content_max # None
    /\ callMetrics.adapter_content_max = callThresholds.max_adapter_content
    /\ ~HasReason(ret.reasons, "adapter_content_max > max_adapter_content")
    /\ ret.status = "FAIL"

\* The report parse_fastqc_zip reads, line by line as the code sees the lines.
ReportLines(z) ==
    LET raw == OpenMember(z, DataFiles(z)[1])
    IN  [i \in DOMAIN raw |-> StripSplit(raw[i])]

\* A statistics line whose second field is missing or is no number.
TotalLine(line) == StartsWith(line[1], "Total Sequences")
GcLine(line) == ~TotalLine(line) /\ StartsWith(line[1], "%GC")
BadTotalLine(line) ==
    TotalLine(line) /\ (Len(line) = 1 \/ py_int(line[2]) = None)
BadGcLine(line) ==
    GcLine(line) /\ (Len(line) = 1 \/ py_float(line[2]) = None)

\* C5: a report with a Total Sequences or %GC line whose second field is
\* missing or unparseable makes parse_fastqc_zip return, not raise; when every
\* such line of a metric is bad the metric is absent, and the adapter metric is
\* extracted all the same.
C5_Original ==
    (pc = "parsed" /\ DataFiles(zip) # <<>>
        /\ \E i \in DOMAIN ReportLines(zip) :
              BadTotalLine(ReportLines(zip)[i]) \/ BadGcLine(ReportLines(zip)[i])) =>
        LET lines == ReportLines(zip) IN
        /\ raised = "none"
        /\ (\A i \in DOMAIN lines : TotalLine(lines[i]) => BadTotalLine(lines[i]))
              => metrics.total_sequences = None
        /\ (\A i \in DOMAIN lines : GcLine(lines[i]) => BadGcLine(lines[i]))
              => metrics.gc_content = None
        /\ metrics.adapter_content_max # None

\* C6: in a batch run, an archive without a report member yields a record with
\* the identifier set and every numeric field absent, and processing it leaves
\* the results mapping unchanged; every entry of the mapping has a
\* total_sequences.
C6_NoReportRecord ==
    (pc \in {"loop", "done"} /\ zip # NoZip /\ DataFiles(zip) = <<>>) =>
        /\ metrics.sample = SampleName(zip.stem)
        /\ metrics.total_sequences = None
        /\ metrics.gc_content = None
        /\ metrics.pct_q30 = None
        /\ metrics.adapter_content_max = None
C6_EntriesHaveReads ==
    \A i \in DOMAIN results : results[i].value.total_sequences # None
C6_NoReportStep ==
    (pc = "loop" /\ idx <= Len(SortedZips(fastqc_dir))
        /\ DataFiles(SortedZips(fastqc_dir)[idx]) = <<>>) =>
        (results' = results /\ pc' = "loop" /\ idx' = idx + 1)
\* C6: the record, the unchanged mapping and the entries' read counts together,
\* in every state and step of the batch run.
C6_NoReportSkipped ==
    /\ [](C6_NoReportRecord /\ C6_EntriesHaveReads)
    /\ [][C6_NoReportStep]_vars

C6_Witness ==
    /\ pc = "done"
    /\ results # <<>>
    /\ zip # NoZip
    /\ DataFiles(zip) = <<>>
    /\ metrics.sample # <<>>

VerdictOf(z) == check_sample(parse_fastqc_zip(z).metrics, thresholds)
Stored(z) == ~Skipped(parse_fastqc_zip(z).metrics)
UniqueKeys(d) == \A i, j \in DOMAIN d : d[i].key = d[j].key => i = j

C9_Original ==
    (pc \in {"loop", "done"} /\ zip # NoZip) =>
        metrics.sample = SubSeq(zip.stem, 1, Len(zip.stem) - 1)

\* The maximum of a non-empty finite set of numbers.
SetMax(S) == CHOOSE x \in S : \A y \in S : y <= x

\* The first start-marker line, and the first end-marker line after it
\* (one past the last line when there is none).
SectionStart(lines) ==
    CHOOSE s \in DOMAIN lines :
        /\ StartsWith(lines[s][1], ">>Adapter Content")
        /\ \A k \in 1..(s - 1) : ~StartsWith(lines[k][1], ">>Adapter Content")
SectionEnd(lines) ==
    LET s == SectionStart(lines)
        E == {e \in (s + 1)..Len(lines) : StartsWith(lines[e][1], ">>END_MODULE")}
    IN  IF E = {} THEN Len(lines) + 1 ELSE CHOOSE e \in E : \A f \in E : e <= f

\* The numbers of the fields after the first, on the lines of the section that
\* are not empty, do not start with # and satisfy Counted.
SectionValues(lines, Counted(_)) ==
    IF \A i \in DOMAIN lines : ~StartsWith(lines[i][1], ">>Adapter Content") THEN {}
    ELSE LET rows == {a \in (SectionStart(lines) + 1)..(SectionEnd(lines) - 1) :
                         /\ lines[a] # <<"">>
                         /\ ~StartsWith(lines[a][1], "#")
                         /\ Counted(lines[a])}
         IN  UNION {{py_float(lines[a][b])[1] :
                        b \in {c \in 2..Len(lines[a]) : py_float(lines[a][c]) # None}} :
                    a \in rows}

AnyLine(line) == TRUE
NotStartMarker(line) == ~StartsWith(line[1], ">>Adapter Content")

====
